---- MODULE Spec2Model ----
(***************************************************************************)
(* Model of the Pomodoro task-list application: the task tree kept as      *)
(* materialized paths in the tasks table (pomodoro/routes/home.py), the    *)
(* lists table with its per-list timer columns (home.py, routes/lists.py)  *)
(* and the seeding of new users (pomodoro/db.py, models/user.py).          *)
(*                                                                         *)
(* A path is a Python/SQLite string; it is modelled as the sequence of its *)
(* character codes, so str(), f"{a}/{b}", split('/') and the ORDER BY path *)
(* comparison are computed as the code computes them.                      *)
(***************************************************************************)
EXTENDS Integers, Sequences, FiniteSets, TLC

\* ---------------------------------------------------------------- bounds
MaxUsers == 2
MaxTaskId == 7
MaxListId == 3
MaxPos == 3
MaxOrderLen == 2
MaxNow == 3606
MaxSessions == 5
MaxSteps == 4
TicksPerSecond == 2      \* the clock is read in half seconds
TickSteps == {601, 3000} \* 300.5 s and 1500 s

\* ------------------------------------------------------------- constants
Null == 0            \* SQL NULL / Python None in an id column
NoTime == 0 - 1      \* SQL NULL in a timestamp column
Unparsable == 0 - 2     \* a stored timer_started_at that fromisoformat rejects
Slash == 47          \* '/'
Dot == 46            \* '.'
Digit0 == 48         \* '0'
NoPath == << >>      \* only used for "no row"

VARIABLES users, lists, tasks, nextListId, nextTaskId, now, resp, hist, steps,
          inflight

vars == <<users, lists, tasks, nextListId, nextTaskId, now, resp, hist, steps,
          inflight>>

Max(a, b) == IF a >= b THEN a ELSE b

\* ------------------------------------------------------- string helpers
RECURSIVE Str(_)
Str(n) == IF n < 10 THEN <<Digit0 + n>> ELSE Str(n \div 10) \o <<Digit0 + (n % 10)>>

\* f"{a}/{b}" on strings
JoinSlash(a, b) == a \o <<Slash>> \o b

\* f"{a}.{b}" on strings
JoinDot(a, b) == a \o <<Dot>> \o b

\* s.split('/'): the sequence of the pieces between separators
RECURSIVE SplitFrom(_, _, _, _)
SplitFrom(s, i, cur, acc) ==
    IF i > Len(s) THEN Append(acc, cur)
    ELSE IF s[i] = Slash THEN SplitFrom(s, i + 1, << >>, Append(acc, cur))
    ELSE SplitFrom(s, i + 1, Append(cur, s[i]), acc)

Split(s) == SplitFrom(s, 1, << >>, << >>)

Range(s) == {s[i] : i \in 1..Len(s)}

\* SQLite BINARY collation (memcmp, shorter prefix first): a < b
RECURSIVE StrLessFrom(_, _, _)
StrLessFrom(a, b, i) ==
    IF i > Len(a) THEN i <= Len(b)
    ELSE IF i > Len(b) THEN FALSE
    ELSE IF a[i] < b[i] THEN TRUE
    ELSE IF a[i] > b[i] THEN FALSE
    ELSE StrLessFrom(a, b, i + 1)

StrLess(a, b) == StrLessFrom(a, b, 1)


\* ------------------------------------------------------------ table rows
\* A row of the lists table as INSERT leaves it: the timer columns take the
\* schema's defaults (idle, zero, 25/5/15 minutes).
NewList(user_id, is_active, tutorial) ==
    [user_id |-> user_id, is_active |-> is_active, tutorial |-> tutorial,
     timer_state |-> "idle", current_phase |-> "none", timer_remaining |-> 0,
     timer_started_at |-> NoTime, timer_last_updated |-> NoTime,
     sessions_completed |-> 0,
     pomo_session |-> 25, pomo_short_break |-> 5, pomo_long_break |-> 15]

NewTask(list_id, user_id, position, parent_id, level, path) ==
    [list_id |-> list_id, user_id |-> user_id, position |-> position,
     parent_id |-> parent_id, level |-> level, path |-> path]

\* The committed database as one value, for the operators that run several
\* statements in a row.
Db == [lists |-> lists, tasks |-> tasks, nl |-> nextListId, nt |-> nextTaskId]

\* what the last request was and how it ended
Response(op, user, status, list) ==
    [op |-> op, status |-> status, user |-> user, list |-> list, task |-> 0]

\* the answer to a move that went through, with the task it moved
MoveResponse(op, user, task) ==
    [op |-> op, status |-> "ok", user |-> user, list |-> 0, task |-> task]

\* What the requests so far have shown (a record of observations, not part of
\* the database): the last status read since the last mutation, the last pause
\* made by pause_timer and not yet undone, the state the last skip left from,
\* and the number of skips since a start on a fresh list.
NoRead == [list |-> 0, at |-> 0, remaining |-> 0]

NoHist ==
    [nreads |-> 0, gap |-> "none", read |-> NoRead,
     plist |-> 0, paused |-> "none", snap |-> 0, sess |-> 0, resumed |-> "none",
     pre_state |-> "none", pre_sess |-> 0,
     rlist |-> 0, run |-> 0 - 1]

\* SELECT ... FROM lists WHERE is_active = 1 AND user_id = ? : the rows
\* fetchone() may return
ActiveLists(ls, u) == {l \in DOMAIN ls : ls[l].user_id = u /\ ls[l].is_active = 1}

\* ----------------------------------------------------------------- seed
\* default_tasks, cut down to three rows of the same shapes as the 18 of the
\* source: root rows (position, None, 0) and child rows whose parent_id is the
\* literal 2, the id the second root gets in an empty database.
default_tasks ==
    << [position |-> 0, parent_id |-> Null, level |-> 0],
       [position |-> 1, parent_id |-> Null, level |-> 0],
       [position |-> 0, parent_id |-> 2, level |-> 1] >>

\* the path the i-th row (1-based) of default_tasks is left with
SeedPath(row, i, task_id) ==
    IF row.parent_id = Null THEN Str(task_id)
    ELSE JoinDot(Str(row.parent_id), Str(i))

RECURSIVE SeedTasks(_, _, _, _, _)
SeedTasks(ts, i, first_id, list_id, user_id) ==
    IF i > Len(default_tasks) THEN ts
    ELSE LET row == default_tasks[i]
             task_id == first_id + i - 1
         IN SeedTasks(
              (task_id :> NewTask(list_id, user_id, row.position, row.parent_id,
                                  row.level, SeedPath(row, i, task_id))) @@ ts,
              i + 1, first_id, list_id, user_id)

seed_default_data(db, user_id) ==
    [lists |-> (db.nl :> NewList(user_id, 1, TRUE)) @@ db.lists,
     tasks |-> SeedTasks(db.tasks, 1, db.nt, db.nl, user_id),
     nl |-> db.nl + 1,
     nt |-> db.nt + Len(default_tasks)]

SeedFits(db, n) ==
    /\ db.nl + n - 1 <= MaxListId
    /\ db.nt + n * Len(default_tasks) - 1 <= MaxTaskId

\* User.create: insert the user, then seed its default data
Register ==
    /\ steps < MaxSteps
    /\ steps' = steps + 1
    /\ UNCHANGED inflight
    /\ Cardinality(users) < MaxUsers
    /\ SeedFits(Db, 1)
    /\ LET u == Cardinality(users) + 1
           db == seed_default_data(Db, u)
       IN /\ users' = users \cup {u}
          /\ lists' = db.lists
          /\ tasks' = db.tasks
          /\ nextListId' = db.nl
          /\ nextTaskId' = db.nt
          /\ resp' = Response("register", u, "ok", 0)
    /\ hist' = NoHist
    /\ UNCHANGED now

\* ------------------------------------------------------- task insertion
MaxOf(S, default) == IF S = {} THEN default ELSE CHOOSE m \in S : \A x \in S : x <= m

add_task(u, empty) ==
    /\ steps < MaxSteps
    /\ steps' = steps + 1
    /\ UNCHANGED inflight
    /\ nextTaskId <= MaxTaskId
    /\ IF empty
       THEN /\ resp' = Response("add_task", u, "empty", 0)
            /\ UNCHANGED <<tasks, nextTaskId>>
       ELSE IF ActiveLists(lists, u) = {}
       THEN /\ resp' = Response("add_task", u, "no_active_list", 0)
            /\ UNCHANGED <<tasks, nextTaskId>>
       ELSE \E l \in ActiveLists(lists, u) :
            LET max_position ==
                    MaxOf({tasks[t].position : t \in
                             {x \in DOMAIN tasks : tasks[x].list_id = l /\ tasks[x].user_id = u}},
                          0 - 1)
                new_task_id == nextTaskId
            IN /\ max_position + 1 <= MaxPos
               /\ tasks' = (new_task_id :> NewTask(l, u, max_position + 1, Null, 0,
                                                   Str(new_task_id))) @@ tasks
               /\ nextTaskId' = nextTaskId + 1
               /\ resp' = Response("add_task", u, "ok", 0)
    /\ hist' = NoHist
    /\ UNCHANGED <<users, lists, nextListId, now>>

create_subtask(u, parent_id, empty) ==
    /\ steps < MaxSteps
    /\ steps' = steps + 1
    /\ UNCHANGED inflight
    /\ nextTaskId <= MaxTaskId
    /\ IF empty
       THEN /\ resp' = Response("create_subtask", u, "empty", 0)
            /\ UNCHANGED <<tasks, nextTaskId>>
       ELSE IF ~(parent_id \in DOMAIN tasks /\ tasks[parent_id].user_id = u)
       THEN /\ resp' = Response("create_subtask", u, "not_found", 0)
            /\ UNCHANGED <<tasks, nextTaskId>>
       ELSE LET parent_task == tasks[parent_id]
                max_position ==
                    MaxOf({tasks[t].position : t \in
                             {x \in DOMAIN tasks : /\ tasks[x].list_id = parent_task.list_id
                                                   /\ tasks[x].user_id = u
                                                   /\ tasks[x].parent_id = parent_id}},
                          0 - 1)
                new_task_id == nextTaskId
                new_path == JoinSlash(parent_task.path, Str(new_task_id))
            IN /\ max_position + 1 <= MaxPos
               /\ tasks' = (new_task_id :> NewTask(parent_task.list_id, u, max_position + 1,
                                                   parent_id, parent_task.level + 1,
                                                   new_path)) @@ tasks
               /\ nextTaskId' = nextTaskId + 1
               /\ resp' = Response("create_subtask", u, "ok", 0)
    /\ hist' = NoHist
    /\ UNCHANGED <<users, lists, nextListId, now>>

\* DELETE FROM tasks WHERE id = ? AND user_id = ? : the connection never turns
\* foreign keys on, so only the matching row goes
delete_task(u, id) ==
    /\ steps < MaxSteps
    /\ steps' = steps + 1
    /\ UNCHANGED inflight
    /\ IF id \in DOMAIN tasks /\ tasks[id].user_id = u
       THEN /\ tasks' = [t \in DOMAIN tasks \ {id} |-> tasks[t]]
            /\ resp' = Response("delete_task", u, "ok", 0)
       ELSE /\ tasks' = tasks
            /\ resp' = Response("delete_task", u, "not_found", 0)
    /\ hist' = NoHist
    /\ UNCHANGED <<users, lists, nextListId, nextTaskId, now>>

\* ------------------------------------------------------------ tree moves
\* Python's recursion limit, scaled to the model: a chain of distinct tasks is
\* never longer than the number of task ids
RecursionLimit == MaxTaskId + 1

\* is_descendant(potential_ancestor_id, potential_descendant_id, db): reads the
\* path of potential_descendant_id and looks for str(potential_ancestor_id)
\* among its pieces
is_descendant(ts, potential_ancestor_id, potential_descendant_id) ==
    IF potential_descendant_id \notin DOMAIN ts THEN FALSE
    ELSE Str(potential_ancestor_id) \in Range(Split(ts[potential_descendant_id].path))

\* update_descendants_paths: ok = FALSE stands for the RecursionError raised
\* when the walk over the children never ends; the statements run so far are
\* then rolled back by the caller
RECURSIVE update_descendants_paths(_, _, _, _, _)
RECURSIVE FixChildren(_, _, _, _, _)
update_descendants_paths(ts, parent_id, new_parent_path, new_parent_level, depth) ==
    IF depth > RecursionLimit THEN [ok |-> FALSE, tasks |-> ts]
    ELSE FixChildren(ts, {d \in DOMAIN ts : ts[d].parent_id = parent_id},
                     new_parent_path, new_parent_level, depth)

FixChildren(ts, descendants, new_parent_path, new_parent_level, depth) ==
    IF descendants = {} THEN [ok |-> TRUE, tasks |-> ts]
    ELSE LET d == CHOOSE x \in descendants : \A y \in descendants : x <= y
             new_path == JoinSlash(new_parent_path, Str(d))
             new_level == new_parent_level + 1
             sub == update_descendants_paths(
                        [ts EXCEPT ![d].path = new_path, ![d].level = new_level],
                        d, new_path, new_level, depth + 1)
         IN IF ~sub.ok THEN sub
            ELSE FixChildren(sub.tasks, descendants \ {d},
                             new_parent_path, new_parent_level, depth)

\* db.rollback() without its effect: the statements run so far stay
rollback_nothing(before, partial) == partial

\* except Exception: db.rollback() -- the table is again what it was when the
\* request began; partial is the table the statements run so far had made
rollback(before, partial) == before

Owned(ts, u, id) == id \in DOMAIN ts /\ ts[id].user_id = u

PosOk(ts) == \A t \in DOMAIN ts : ts[t].position <= MaxPos

\* the statements of the make_subtask / parent_id branch, up to the fixup
Reparent(ts, id, new_parent_id) ==
    LET new_level == ts[new_parent_id].level + 1
        new_path == JoinSlash(ts[new_parent_id].path, Str(id))
    IN update_descendants_paths(
           [ts EXCEPT ![id].parent_id = new_parent_id, ![id].level = new_level,
                      ![id].path = new_path],
           id, new_path, new_level, 1)

\* the move_to_root branch without its call of update_descendants_paths
ToRoot_self_only(ts, id) ==
    [ok |-> TRUE,
     tasks |-> [ts EXCEPT ![id].parent_id = Null, ![id].level = 0, ![id].path = Str(id)]]

\* the statements of the move_to_root / parent_id null branch
ToRoot(ts, id) ==
    update_descendants_paths(
        [ts EXCEPT ![id].parent_id = Null, ![id].level = 0, ![id].path = Str(id)],
        id, Str(id), 0, 1)

move_task(u, id, operation, new_parent_id) ==
    /\ steps < MaxSteps
    /\ steps' = steps + 1
    /\ UNCHANGED inflight
    /\ IF ~Owned(tasks, u, id)
       THEN /\ tasks' = tasks
            /\ resp' = Response("move_task", u, "not_found", 0)
       ELSE IF operation = "make_subtask" /\ new_parent_id # Null
       THEN IF ~Owned(tasks, u, new_parent_id)
            THEN /\ tasks' = tasks
                 /\ resp' = Response("move_task", u, "parent_not_found", 0)
            ELSE IF is_descendant(tasks, new_parent_id, id)
            THEN /\ tasks' = tasks
                 /\ resp' = Response("move_task", u, "circular", 0)
            ELSE LET r == Reparent(tasks, id, new_parent_id)
                 IN IF r.ok
                    THEN /\ tasks' = r.tasks
                         /\ resp' = MoveResponse("move_task", u, id)
                    ELSE /\ tasks' = rollback(tasks, r.tasks)
                         /\ resp' = Response("move_task", u, "db_error", 0)
       ELSE IF operation = "move_to_root"
       THEN LET r == ToRoot(tasks, id)
            IN IF r.ok
               THEN /\ tasks' = r.tasks
                    /\ resp' = MoveResponse("move_to_root", u, id)
               ELSE /\ tasks' = rollback(tasks, r.tasks)
                    /\ resp' = Response("move_to_root", u, "db_error", 0)
       ELSE /\ tasks' = tasks
            /\ resp' = Response("move_task", u, "ok_nothing", 0)
    /\ hist' = NoHist
    /\ UNCHANGED <<users, lists, nextListId, nextTaskId, now>>

\* the "Update position" part of update_task_hierarchy
Reposition(ts, u, task_id, position_after_id, list_id) ==
    IF position_after_id # Null
    THEN IF /\ Owned(ts, u, position_after_id)
            /\ ts[position_after_id].list_id = list_id
         THEN LET after_position == ts[position_after_id].position
                  shifted == [t \in DOMAIN ts |->
                                IF /\ ts[t].position > after_position
                                   /\ ts[t].user_id = u
                                   /\ ts[t].list_id = list_id
                                THEN [ts[t] EXCEPT !.position = @ + 1]
                                ELSE ts[t]]
              IN [shifted EXCEPT ![task_id].position = after_position + 1]
         ELSE ts
    ELSE LET shifted == [t \in DOMAIN ts |->
                           IF ts[t].user_id = u /\ ts[t].list_id = list_id
                           THEN [ts[t] EXCEPT !.position = @ + 1]
                           ELSE ts[t]]
         IN [shifted EXCEPT ![task_id].position = 0]

update_task_hierarchy(u, task_id, new_parent_id, position_after_id, list_id) ==
    /\ steps < MaxSteps
    /\ steps' = steps + 1
    /\ UNCHANGED inflight
    /\ IF ~Owned(tasks, u, task_id)
       THEN /\ tasks' = tasks
            /\ resp' = Response("update_task_hierarchy", u, "not_found", 0)
       ELSE IF ~(list_id \in DOMAIN lists /\ lists[list_id].user_id = u)
       THEN /\ tasks' = tasks
            /\ resp' = Response("update_task_hierarchy", u, "unauthorized", 0)
       ELSE IF new_parent_id # Null /\ ~Owned(tasks, u, new_parent_id)
       THEN /\ tasks' = tasks
            /\ resp' = Response("update_task_hierarchy", u, "parent_not_found", 0)
       ELSE IF new_parent_id # Null /\ is_descendant(tasks, new_parent_id, task_id)
       THEN /\ tasks' = tasks
            /\ resp' = Response("update_task_hierarchy", u, "circular", 0)
       ELSE LET r == IF new_parent_id = Null THEN ToRoot(tasks, task_id)
                     ELSE Reparent(tasks, task_id, new_parent_id)
            IN IF r.ok
               THEN /\ tasks' = Reposition(r.tasks, u, task_id, position_after_id, list_id)
                    /\ PosOk(tasks')
                    /\ resp' = MoveResponse("update_task_hierarchy", u, task_id)
               ELSE /\ tasks' = rollback(tasks, r.tasks)
                    /\ resp' = Response("update_task_hierarchy", u, "db_error", 0)
    /\ hist' = NoHist
    /\ UNCHANGED <<users, lists, nextListId, nextTaskId, now>>

\* the loop of reorder_tasks with an UPDATE that adds the index to the position
RECURSIVE ReorderFrom_relative(_, _, _, _, _)
ReorderFrom_relative(ts, u, list_id, task_order, i) ==
    IF i > Len(task_order) THEN ts
    ELSE LET task_id == task_order[i]
         IN ReorderFrom_relative(
              IF Owned(ts, u, task_id) /\ ts[task_id].list_id = list_id
              THEN [ts EXCEPT ![task_id].position = @ + i - 1]
              ELSE ts,
              u, list_id, task_order, i + 1)

\* the loop of reorder_tasks with an UPDATE that filters on the id alone
RECURSIVE ReorderFrom_unscoped(_, _, _, _, _)
ReorderFrom_unscoped(ts, u, list_id, task_order, i) ==
    IF i > Len(task_order) THEN ts
    ELSE LET task_id == task_order[i]
         IN ReorderFrom_unscoped(
              IF task_id \in DOMAIN ts
              THEN [ts EXCEPT ![task_id].position = i - 1]
              ELSE ts,
              u, list_id, task_order, i + 1)

\* the loop of reorder_tasks: index is 0-based, as enumerate() counts
RECURSIVE ReorderFrom(_, _, _, _, _)
ReorderFrom(ts, u, list_id, task_order, i) ==
    IF i > Len(task_order) THEN ts
    ELSE LET task_id == task_order[i]
         IN ReorderFrom(
              IF Owned(ts, u, task_id) /\ ts[task_id].list_id = list_id
              THEN [ts EXCEPT ![task_id].position = i - 1]
              ELSE ts,
              u, list_id, task_order, i + 1)

reorder_tasks(u, list_id, task_order) ==
    /\ steps < MaxSteps
    /\ steps' = steps + 1
    /\ UNCHANGED inflight
    /\ IF task_order = << >>
       THEN /\ tasks' = tasks
            /\ resp' = Response("reorder_tasks", u, "missing", list_id)
       ELSE IF ~(list_id \in DOMAIN lists /\ lists[list_id].user_id = u)
       THEN /\ tasks' = tasks
            /\ resp' = Response("reorder_tasks", u, "unauthorized", list_id)
       ELSE /\ tasks' = ReorderFrom(tasks, u, list_id, task_order, 1)
            /\ resp' = Response("reorder_tasks", u, "ok", list_id)
    /\ hist' = NoHist
    /\ UNCHANGED <<users, lists, nextListId, nextTaskId, now>>

\* ------------------------------------------------------ hierarchical query
\* the rows of the recursive CTE of get_tasks_with_hierarchy
RECURSIVE TreeRows(_, _, _, _)
TreeRows(ts, list_id, user_id, acc) ==
    LET more == {t \in DOMAIN ts : /\ ts[t].list_id = list_id
                                   /\ ts[t].user_id = user_id
                                   /\ ts[t].parent_id \in acc
                                   /\ t \notin acc}
    IN IF more = {} THEN acc ELSE TreeRows(ts, list_id, user_id, acc \cup more)

CteRows(ts, list_id, user_id) ==
    TreeRows(ts, list_id, user_id,
             {t \in DOMAIN ts : /\ ts[t].list_id = list_id
                                /\ ts[t].user_id = user_id
                                /\ ts[t].parent_id = Null})

BigKey == 999999

\* ORDER BY CASE WHEN parent_id IS NULL THEN position ELSE 999999 END, path,
\*          CASE WHEN parent_id IS NOT NULL THEN position ELSE 999999 END
OrderKey1(row) == IF row.parent_id = Null THEN row.position ELSE BigKey
OrderKey3(row) == IF row.parent_id # Null THEN row.position ELSE BigKey

RowLess(a, b) ==
    \/ OrderKey1(a) < OrderKey1(b)
    \/ /\ OrderKey1(a) = OrderKey1(b)
       /\ \/ StrLess(a.path, b.path)
          \/ a.path = b.path /\ OrderKey3(a) < OrderKey3(b)

\* every sequence of the ids of S the ORDER BY allows (rows that compare equal
\* come in either order)
RECURSIVE SortedSeqs(_, _)
SortedSeqs(ts, S) ==
    IF S = {} THEN { << >> }
    ELSE UNION { { <<m>> \o r : r \in SortedSeqs(ts, S \ {m}) } :
                 m \in {x \in S : \A y \in S : ~RowLess(ts[y], ts[x])} }

get_tasks_with_hierarchy(ts, list_id, user_id) ==
    SortedSeqs(ts, CteRows(ts, list_id, user_id))

\* --------------------------------------------------------- list requests
select_list(u, id) ==
    /\ steps < MaxSteps
    /\ steps' = steps + 1
    /\ UNCHANGED inflight
    /\ IF ~(id \in DOMAIN lists /\ lists[id].user_id = u)
       THEN /\ lists' = lists
            /\ resp' = Response("select_list", u, "not_found", id)
       ELSE \E current_active \in ActiveLists(lists, u) \cup {Null} :
            /\ current_active = Null => ActiveLists(lists, u) = {}
            /\ LET paused ==
                     IF /\ current_active # Null
                        /\ lists[current_active].timer_state
                              \in {"session", "short_break", "long_break"}
                     THEN [lists EXCEPT ![current_active].timer_state = "paused",
                                        ![current_active].timer_started_at = NoTime,
                                        ![current_active].timer_last_updated = now]
                     ELSE lists
               IN lists' = [l \in DOMAIN paused |->
                              IF paused[l].user_id # u THEN paused[l]
                              ELSE [paused[l] EXCEPT !.is_active = IF l = id THEN 1 ELSE 0]]
            /\ resp' = Response("select_list", u, "ok", id)
    /\ hist' = [hist EXCEPT !.nreads = 0, !.gap = "none", !.read = NoRead, !.run = 0 - 1]
    /\ UNCHANGED <<users, tasks, nextListId, nextTaskId, now>>

\* lists.create: the row takes the schema's default for is_active
create(u, tutorial) ==
    /\ steps < MaxSteps
    /\ steps' = steps + 1
    /\ UNCHANGED inflight
    /\ nextListId <= MaxListId
    /\ lists' = (nextListId :> NewList(u, 0, tutorial)) @@ lists
    /\ nextListId' = nextListId + 1
    /\ resp' = Response("create", u, "ok", nextListId)
    /\ hist' = [hist EXCEPT !.nreads = 0, !.gap = "none", !.read = NoRead]
    /\ UNCHANGED <<users, tasks, nextTaskId, now>>

\* edit_list: a new name may or may not match LIKE '%Tutorial%'
edit_list(u, id, tutorial) ==
    /\ steps < MaxSteps
    /\ steps' = steps + 1
    /\ UNCHANGED inflight
    /\ IF ~(id \in DOMAIN lists /\ lists[id].user_id = u)
       THEN /\ lists' = lists
            /\ resp' = Response("edit_list", u, "not_found", id)
       ELSE /\ lists' = [lists EXCEPT ![id].tutorial = tutorial]
            /\ resp' = Response("edit_list", u, "ok", id)
    /\ hist' = [hist EXCEPT !.nreads = 0, !.gap = "none", !.read = NoRead]
    /\ UNCHANGED <<users, tasks, nextListId, nextTaskId, now>>

delete_list(u, id) ==
    /\ steps < MaxSteps
    /\ steps' = steps + 1
    /\ UNCHANGED inflight
    /\ IF ~(id \in DOMAIN lists /\ lists[id].user_id = u)
       THEN /\ lists' = lists
            /\ resp' = Response("delete_list", u, "not_found", id)
       ELSE LET was_active == lists[id].is_active
                rest == [l \in DOMAIN lists \ {id} |-> lists[l]]
                mine == {l \in DOMAIN rest : rest[l].user_id = u}
            IN /\ IF was_active = 1 /\ mine # {}
                  THEN \E new_active \in mine :
                          lists' = [rest EXCEPT ![new_active].is_active = 1]
                  ELSE lists' = rest
               /\ resp' = Response("delete_list", u, "ok", id)
    /\ hist' = NoHist
    /\ UNCHANGED <<users, tasks, nextListId, nextTaskId, now>>

\* reset_tutorial_command: for every user, delete the lists named like
\* '%Tutorial%' and seed again
RECURSIVE ResetFrom(_, _)
ResetFrom(db, todo) ==
    IF todo = {} THEN db
    ELSE LET user == CHOOSE x \in todo : \A y \in todo : x <= y
             kept == {l \in DOMAIN db.lists :
                         ~(db.lists[l].user_id = user /\ db.lists[l].tutorial)}
             deleted == [db EXCEPT !.lists = [l \in kept |-> db.lists[l]]]
         IN ResetFrom(seed_default_data(deleted, user), todo \ {user})

reset_tutorial_command ==
    /\ steps < MaxSteps
    /\ steps' = steps + 1
    /\ UNCHANGED inflight
    /\ users # {}
    /\ SeedFits(Db, Cardinality(users))
    /\ LET db == ResetFrom(Db, users)
       IN /\ lists' = db.lists
          /\ tasks' = db.tasks
          /\ nextListId' = db.nl
          /\ nextTaskId' = db.nt
    /\ resp' = Response("reset_tutorial", 0, "ok", 0)
    /\ hist' = NoHist
    /\ UNCHANGED <<users, now>>

\* ---------------------------------------------------------------- timer
Running == {"session", "short_break", "long_break"}

NoneArg == 0 - 1     \* a keyword argument left at None

\* calculate_remaining_time without its max(0, ...)
calculate_remaining_time_unclamped(list_row, t) ==
    IF list_row.timer_started_at = NoTime \/ list_row.timer_state \in {"idle", "paused"}
    THEN list_row.timer_remaining
    ELSE list_row.timer_remaining
            - ((t - list_row.timer_started_at) \div TicksPerSecond)

\* calculate_remaining_time counting from the epoch when the row has no
\* start timestamp it can read
calculate_remaining_time_epoch(list_row, t) ==
    IF list_row.timer_state \in {"idle", "paused"}
    THEN list_row.timer_remaining
    ELSE LET started_at == IF list_row.timer_started_at \in {NoTime, Unparsable}
                           THEN 0 ELSE list_row.timer_started_at
             elapsed_seconds == (t - started_at) \div TicksPerSecond
         IN Max(0, list_row.timer_remaining - elapsed_seconds)

\* calculate_remaining_time(list_row) read at the instant t (in ticks);
\* int(total_seconds()) drops the part of a second
calculate_remaining_time(list_row, t) ==
    IF list_row.timer_started_at = NoTime \/ list_row.timer_state \in {"idle", "paused"}
    THEN list_row.timer_remaining
    ELSE IF list_row.timer_started_at = Unparsable
    THEN list_row.timer_remaining      \* except Exception
    ELSE LET elapsed_seconds == (t - list_row.timer_started_at) \div TicksPerSecond
             remaining == list_row.timer_remaining - elapsed_seconds
         IN Max(0, remaining)

\* get_next_phase sending a paused list to the long break when the counter
\* is one short of a multiple of four
get_next_phase_paused_long(current_state, sessions_completed) ==
    IF current_state = "session"
    THEN IF (sessions_completed + 1) % 4 = 0
         THEN <<"long_break", sessions_completed + 1>>
         ELSE <<"short_break", sessions_completed + 1>>
    ELSE IF current_state = "paused"
    THEN IF (sessions_completed + 1) % 4 = 0
         THEN <<"long_break", sessions_completed + 1>>
         ELSE IF sessions_completed % 4 \in {0, 2}
         THEN <<"short_break", sessions_completed + 1>>
         ELSE <<"session", sessions_completed>>
    ELSE <<"session", sessions_completed>>

\* get_next_phase testing the counter before, not after, the increment
get_next_phase_late(current_state, sessions_completed) ==
    IF current_state = "session"
    THEN IF sessions_completed % 4 = 0
         THEN <<"long_break", sessions_completed + 1>>
         ELSE <<"short_break", sessions_completed + 1>>
    ELSE IF current_state = "paused"
    THEN IF sessions_completed % 4 \in {0, 2}
         THEN <<"short_break", sessions_completed + 1>>
         ELSE <<"session", sessions_completed>>
    ELSE <<"session", sessions_completed>>

get_next_phase(current_state, sessions_completed) ==
    IF current_state = "session"
    THEN IF (sessions_completed + 1) % 4 = 0
         THEN <<"long_break", sessions_completed + 1>>
         ELSE <<"short_break", sessions_completed + 1>>
    ELSE IF current_state = "paused"
    THEN IF sessions_completed % 4 = 0
         THEN <<"short_break", sessions_completed + 1>>
         ELSE IF sessions_completed % 4 = 1
         THEN <<"session", sessions_completed>>
         ELSE IF sessions_completed % 4 = 2
         THEN <<"short_break", sessions_completed + 1>>
         ELSE IF sessions_completed % 4 = 3
         THEN <<"session", sessions_completed>>
         ELSE <<"session", sessions_completed>>
    ELSE IF current_state \in {"short_break", "long_break"}
    THEN <<"session", sessions_completed>>
    ELSE <<"session", sessions_completed>>

\* the length of a session, whatever the phase
PhaseSeconds_of_session(list_row, phase) ==
    list_row.pomo_session * 60

\* the full length of a phase, in seconds
PhaseSeconds(list_row, phase) ==
    IF phase = "session" THEN list_row.pomo_session * 60
    ELSE IF phase = "short_break" THEN list_row.pomo_short_break * 60
    ELSE IF phase = "long_break" THEN list_row.pomo_long_break * 60
    ELSE NoneArg

\* update_timer_state testing its optional arguments for truth, so that a
\* remaining or a counter of 0 counts as left out
update_timer_state_truthy(list_row, state, remaining, sessions_completed, current_phase, t) ==
    LET phase == IF current_phase # "none" THEN current_phase
                 ELSE IF state \in Running THEN state
                 ELSE list_row.current_phase
        starting == state \in Running /\ list_row.timer_state \notin Running
        given(x) == x # NoneArg /\ x # 0
    IN [list_row EXCEPT
          !.timer_state = state,
          !.timer_last_updated = t,
          !.current_phase = phase,
          !.timer_started_at = IF state \in Running
                               THEN IF starting THEN t ELSE @
                               ELSE NoTime,
          !.timer_remaining = IF given(remaining) THEN remaining
                              ELSE IF starting /\ PhaseSeconds(list_row, phase) # NoneArg
                              THEN PhaseSeconds(list_row, phase) ELSE @,
          !.sessions_completed = IF given(sessions_completed) THEN sessions_completed
                                 ELSE @]

\* update_timer_state leaving timer_started_at as it was when it pauses
update_timer_state_keeps_start(list_row, state, remaining, sessions_completed, current_phase, t) ==
    LET phase == IF current_phase # "none" THEN current_phase
                 ELSE IF state \in Running THEN state
                 ELSE list_row.current_phase
        starting == state \in Running /\ list_row.timer_state \notin Running
    IN [list_row EXCEPT
          !.timer_state = state,
          !.timer_last_updated = t,
          !.current_phase = phase,
          !.timer_started_at = IF starting THEN t ELSE @,
          !.timer_remaining = IF remaining # NoneArg THEN remaining
                              ELSE IF starting /\ PhaseSeconds(list_row, phase) # NoneArg
                              THEN PhaseSeconds(list_row, phase) ELSE @,
          !.sessions_completed = IF sessions_completed # NoneArg THEN sessions_completed
                                 ELSE @]

\* update_timer_state applied to the row it selects, at the instant t;
\* remaining and sessions_completed are NoneArg, current_phase "none", when the
\* caller leaves them out
update_timer_state(list_row, state, remaining, sessions_completed, current_phase, t) ==
    LET phase == IF current_phase # "none" THEN current_phase
                 ELSE IF state \in Running THEN state
                 ELSE list_row.current_phase
        starting == state \in Running /\ list_row.timer_state \notin Running
        started_at == IF state \in Running
                      THEN IF starting THEN t ELSE list_row.timer_started_at
                      ELSE NoTime
        computed == IF starting /\ remaining = NoneArg /\ PhaseSeconds(list_row, phase) # NoneArg
                    THEN PhaseSeconds(list_row, phase)
                    ELSE list_row.timer_remaining
    IN [list_row EXCEPT
          !.timer_state = state,
          !.timer_last_updated = t,
          !.current_phase = phase,
          !.timer_started_at = started_at,
          !.timer_remaining = IF remaining # NoneArg THEN remaining ELSE computed,
          !.sessions_completed = IF sessions_completed # NoneArg THEN sessions_completed
                                 ELSE @]

\* start_timer resuming into session whatever current_phase says
StartArgsInMinutes(active_list, t) ==
    [state |-> IF active_list.timer_state = "idle" THEN "session"
               ELSE IF active_list.timer_state = "paused"
                       /\ active_list.current_phase # "none"
               THEN active_list.current_phase
               ELSE IF active_list.timer_state = "paused" THEN "session"
               ELSE active_list.timer_state,
     current_phase |-> IF active_list.timer_state = "idle" THEN "session"
                       ELSE IF active_list.current_phase # "none"
                       THEN active_list.current_phase
                       ELSE IF active_list.timer_state = "paused" THEN "session"
                       ELSE active_list.timer_state,
     remaining |-> IF active_list.timer_state = "idle" THEN active_list.pomo_session
                   ELSE calculate_remaining_time(active_list, t),
     sessions_completed |-> active_list.sessions_completed]

StartArgsAsSession(active_list, t) ==
    [state |-> IF active_list.timer_state \in Running THEN active_list.timer_state
               ELSE "session",
     current_phase |-> IF active_list.timer_state \in Running THEN active_list.timer_state
                       ELSE "session",
     remaining |-> IF active_list.timer_state = "idle" THEN active_list.pomo_session * 60
                   ELSE calculate_remaining_time(active_list, t),
     sessions_completed |-> active_list.sessions_completed]

\* the branch of start_timer that picks state, phase, remaining and counter
StartArgs(active_list, t) ==
    IF active_list.timer_state = "idle"
    THEN [state |-> "session", current_phase |-> "session",
          remaining |-> active_list.pomo_session * 60,
          sessions_completed |-> active_list.sessions_completed]
    ELSE IF active_list.timer_state = "paused"
    THEN LET current_phase == IF active_list.current_phase # "none"
                              THEN active_list.current_phase ELSE "session"
         IN [state |-> current_phase, current_phase |-> current_phase,
             remaining |-> calculate_remaining_time(active_list, t),
             sessions_completed |-> active_list.sessions_completed]
    ELSE [state |-> active_list.timer_state,
          current_phase |-> IF active_list.current_phase # "none"
                            THEN active_list.current_phase
                            ELSE active_list.timer_state,
          remaining |-> calculate_remaining_time(active_list, t),
          sessions_completed |-> active_list.sessions_completed]

NoActive(u, op) ==
    /\ resp' = Response(op, u, "no_active_list", 0)
    /\ UNCHANGED <<lists, hist>>

\* get_timer_status storing the remaining time it has computed
get_timer_status_saving(u) ==
    /\ IF ActiveLists(lists, u) = {} THEN NoActive(u, "status")
       ELSE \E l \in ActiveLists(lists, u) :
            LET remaining == calculate_remaining_time(lists[l], now)
                read == [list |-> l, at |-> now, remaining |-> remaining]
            IN /\ resp' = Response("status", u, "ok", l)
               /\ hist' = [hist EXCEPT
                    !.nreads = IF @ < 2 THEN @ + 1 ELSE 2,
                    !.gap = IF hist.nreads = 0 THEN "none"
                            ELSE IF hist.read.at = now THEN "same"
                            ELSE IF (now - hist.read.at) % TicksPerSecond = 0 THEN "whole"
                            ELSE "part",
                    !.read = read]
               /\ lists' = [lists EXCEPT ![l].timer_remaining = remaining]
    /\ UNCHANGED <<users, tasks, nextListId, nextTaskId, now>>
    /\ UNCHANGED <<steps, inflight>>

get_timer_status(u) ==
    /\ IF ActiveLists(lists, u) = {} THEN NoActive(u, "status")
       ELSE \E l \in ActiveLists(lists, u) :
            LET remaining == calculate_remaining_time(lists[l], now)
                read == [list |-> l, at |-> now, remaining |-> remaining]
            IN /\ resp' = Response("status", u, "ok", l)
               /\ hist' = [hist EXCEPT
                    !.nreads = IF @ < 2 THEN @ + 1 ELSE 2,
                    !.gap = IF hist.nreads = 0 THEN "none"
                            ELSE IF hist.read.at = now THEN "same"
                            ELSE IF (now - hist.read.at) % TicksPerSecond = 0 THEN "whole"
                            ELSE "part",
                    !.read = read]
               /\ lists' = lists
    /\ UNCHANGED <<users, tasks, nextListId, nextTaskId, now>>
    /\ UNCHANGED <<steps, inflight>>

start_timer(u) ==
    /\ IF ActiveLists(lists, u) = {} THEN NoActive(u, "start")
       ELSE \E l \in ActiveLists(lists, u) :
            LET active_list == lists[l]
                a == StartArgs(active_list, now)
            IN /\ lists' = [lists EXCEPT ![l] =
                              update_timer_state(active_list, a.state, a.remaining,
                                                 a.sessions_completed, a.current_phase, now)]
               /\ resp' = Response("start", u, "ok", l)
               /\ hist' = [hist EXCEPT
                    !.nreads = 0, !.gap = "none", !.read = NoRead,
                    !.plist = IF hist.plist = l THEN 0 ELSE @,
                    !.paused = IF hist.plist = l THEN "none" ELSE @,
                    !.snap = IF hist.plist = l THEN 0 ELSE @,
                    !.sess = IF hist.plist = l THEN 0 ELSE @,
                    !.resumed = IF hist.plist = l /\ active_list.timer_state = "paused"
                                THEN hist.paused ELSE "none",
                    !.pre_state = "none", !.pre_sess = 0,
                    !.rlist = IF active_list.timer_state = "idle"
                                 /\ active_list.sessions_completed = 0 THEN l
                              ELSE IF hist.rlist = l THEN 0 ELSE @,
                    !.run = IF active_list.timer_state = "idle"
                               /\ active_list.sessions_completed = 0 THEN 0
                            ELSE IF hist.rlist = l THEN 0 - 1 ELSE @]
    /\ UNCHANGED <<users, tasks, nextListId, nextTaskId, now>>
    /\ UNCHANGED <<steps, inflight>>

pause_timer(u) ==
    /\ IF ActiveLists(lists, u) = {} THEN NoActive(u, "pause")
       ELSE \E l \in ActiveLists(lists, u) :
            LET active_list == lists[l]
            IN IF active_list.timer_state \notin Running
               THEN /\ resp' = Response("pause", u, "not_running", l)
                    /\ UNCHANGED lists
                    /\ hist' = [hist EXCEPT !.nreads = 0, !.gap = "none", !.read = NoRead]
               ELSE LET remaining == calculate_remaining_time(active_list, now)
                        current_phase == active_list.timer_state
                    IN /\ lists' = [lists EXCEPT ![l] =
                                      update_timer_state(active_list, "paused", remaining,
                                                         NoneArg, current_phase, now)]
                       /\ resp' = Response("pause", u, "ok", l)
                       /\ hist' = [hist EXCEPT
                            !.nreads = 0, !.gap = "none", !.read = NoRead,
                            !.plist = l, !.paused = current_phase, !.snap = remaining,
                            !.sess = active_list.sessions_completed, !.resumed = "none",
                            !.pre_state = "none", !.pre_sess = 0,
                            !.rlist = IF hist.rlist = l THEN 0 ELSE @,
                            !.run = IF hist.rlist = l THEN 0 - 1 ELSE @]
    /\ UNCHANGED <<users, tasks, nextListId, nextTaskId, now>>
    /\ UNCHANGED <<steps, inflight>>

\* what skip, reset and reset_sets leave of the observations about list l
Forget(l) ==
    [hist EXCEPT
       !.nreads = 0, !.gap = "none", !.read = NoRead,
       !.plist = IF hist.plist = l THEN 0 ELSE @,
       !.paused = IF hist.plist = l THEN "none" ELSE @,
       !.snap = IF hist.plist = l THEN 0 ELSE @,
       !.sess = IF hist.plist = l THEN 0 ELSE @,
       !.resumed = "none",
       !.pre_state = "none", !.pre_sess = 0,
       !.rlist = IF hist.rlist = l THEN 0 ELSE @,
       !.run = IF hist.rlist = l THEN 0 - 1 ELSE @]

reset_timer(u) ==
    /\ IF ActiveLists(lists, u) = {} THEN NoActive(u, "reset")
       ELSE \E l \in ActiveLists(lists, u) :
            LET active_list == lists[l]
                current_phase == IF active_list.current_phase # "none"
                                 THEN active_list.current_phase ELSE "session"
                remaining == IF PhaseSeconds(active_list, current_phase) # NoneArg
                             THEN PhaseSeconds(active_list, current_phase)
                             ELSE active_list.pomo_session * 60
            IN /\ lists' = [lists EXCEPT ![l] =
                              update_timer_state(active_list, "paused", remaining,
                                                 NoneArg, current_phase, now)]
               /\ resp' = Response("reset", u, "ok", l)
               /\ hist' = Forget(l)
    /\ UNCHANGED <<users, tasks, nextListId, nextTaskId, now>>
    /\ UNCHANGED <<steps, inflight>>

skip_timer(u) ==
    /\ IF ActiveLists(lists, u) = {} THEN NoActive(u, "skip")
       ELSE \E l \in ActiveLists(lists, u) :
            LET active_list == lists[l]
                next == get_next_phase(active_list.timer_state,
                                       active_list.sessions_completed)
                next_state == next[1]
                sessions_completed == next[2]
                remaining == PhaseSeconds(active_list, next_state)
            IN /\ sessions_completed <= MaxSessions
               /\ lists' = [lists EXCEPT ![l] =
                              update_timer_state(active_list, next_state, remaining,
                                                 sessions_completed, next_state, now)]
               /\ resp' = Response("skip", u, "ok", l)
               /\ hist' = [Forget(l) EXCEPT
                    !.pre_state = active_list.timer_state,
                    !.pre_sess = active_list.sessions_completed,
                    !.rlist = IF hist.rlist = l /\ hist.run >= 7 THEN 0 ELSE hist.rlist,
                    !.run = IF hist.rlist = l
                            THEN IF hist.run < 7 THEN hist.run + 1 ELSE 0 - 1
                            ELSE hist.run]
    /\ UNCHANGED <<users, tasks, nextListId, nextTaskId, now>>
    /\ UNCHANGED <<steps, inflight>>

reset_sets(u) ==
    /\ IF ActiveLists(lists, u) = {} THEN NoActive(u, "reset_sets")
       ELSE \E l \in ActiveLists(lists, u) :
            LET active_list == lists[l]
            IN /\ lists' = [lists EXCEPT ![l] =
                              update_timer_state(active_list, "paused",
                                                 active_list.pomo_session * 60, 0,
                                                 "session", now)]
               /\ resp' = Response("reset_sets", u, "ok", l)
               /\ hist' = Forget(l)
    /\ UNCHANGED <<users, tasks, nextListId, nextTaskId, now>>
    /\ UNCHANGED <<steps, inflight>>

\* time passing with a server-side countdown: a running list whose time has
\* run out is put to idle
Tick_expiring ==
    /\ \E d \in TickSteps : now + d <= MaxNow /\ now' = now + d
    /\ lists' = [l \in DOMAIN lists |->
                   IF /\ lists[l].timer_state \in Running
                      /\ calculate_remaining_time(lists[l], now') = 0
                   THEN [lists[l] EXCEPT !.timer_state = "idle",
                                         !.timer_remaining = 0,
                                         !.timer_started_at = NoTime]
                   ELSE lists[l]]
    /\ UNCHANGED <<users, tasks, nextListId, nextTaskId, resp, hist>>
    /\ UNCHANGED <<steps, inflight>>

\* wall-clock time passes; nothing else does
Tick ==
    /\ \E d \in TickSteps : now + d <= MaxNow /\ now' = now + d
    /\ UNCHANGED <<users, lists, tasks, nextListId, nextTaskId, resp, hist>>
    /\ UNCHANGED <<steps, inflight>>

\* ------------------------------------------- timer requests in flight
\* Two timer requests of one user (two tabs) served at the same time. Each
\* handler selects the active list and computes its arguments; then
\* update_timer_state selects the row again, builds update_data from it and
\* writes the columns of update_data in one UPDATE, committed at once.
TimerKinds == {"start", "pause", "reset", "skip", "reset_sets"}

Requests == {1, 2}

NoArgs ==
    [state |-> "none", current_phase |-> "none", remaining |-> NoneArg,
     sessions_completed |-> NoneArg]

NoRow == NewList(Null, 0, FALSE)

NoRequest ==
    [pc |-> "idle", kind |-> "none", list |-> 0, args |-> NoArgs, list_row |-> NoRow]

\* base: the row as it was when the first of the two requests began
NoFlight == [req |-> [r \in Requests |-> NoRequest], base |-> NoRow]

\* pause_timer answers 400 without writing when the timer is not running
Refused(kind, active_list) ==
    kind = "pause" /\ active_list.timer_state \notin Running

\* the arguments the handler of each kind passes to update_timer_state
TimerArgs(kind, active_list, t) ==
    IF kind = "start" THEN StartArgs(active_list, t)
    ELSE IF kind = "pause"
    THEN [state |-> "paused", current_phase |-> active_list.timer_state,
          remaining |-> calculate_remaining_time(active_list, t),
          sessions_completed |-> NoneArg]
    ELSE IF kind = "reset"
    THEN LET current_phase == IF active_list.current_phase # "none"
                              THEN active_list.current_phase ELSE "session"
         IN [state |-> "paused", current_phase |-> current_phase,
             remaining |-> IF PhaseSeconds(active_list, current_phase) # NoneArg
                           THEN PhaseSeconds(active_list, current_phase)
                           ELSE active_list.pomo_session * 60,
             sessions_completed |-> NoneArg]
    ELSE IF kind = "skip"
    THEN LET next == get_next_phase(active_list.timer_state,
                                    active_list.sessions_completed)
         IN [state |-> next[1], current_phase |-> next[1],
             remaining |-> PhaseSeconds(active_list, next[1]),
             sessions_completed |-> next[2]]
    ELSE [state |-> "paused", current_phase |-> "session",
          remaining |-> active_list.pomo_session * 60, sessions_completed |-> 0]

\* the columns update_data holds, for the row update_timer_state selected
UpdateColumns(list_row, a) ==
    LET starting == a.state \in Running /\ list_row.timer_state \notin Running
    IN {"timer_state", "timer_last_updated"}
       \cup (IF \/ a.current_phase # "none"
                \/ a.state \in Running
                \/ list_row.current_phase # "none"
             THEN {"current_phase"} ELSE {})
       \cup (IF a.state \notin Running \/ starting THEN {"timer_started_at"} ELSE {})
       \cup (IF \/ a.remaining # NoneArg
                \/ starting /\ PhaseSeconds(list_row,
                                            IF a.current_phase # "none"
                                            THEN a.current_phase ELSE a.state) # NoneArg
             THEN {"timer_remaining"} ELSE {})
       \cup (IF a.sessions_completed # NoneArg THEN {"sessions_completed"} ELSE {})

\* UPDATE lists SET <the columns of update_data> on the row as it is now
WriteColumns(current, list_row, a, t) ==
    LET data == update_timer_state(list_row, a.state, a.remaining,
                                   a.sessions_completed, a.current_phase, t)
    IN [c \in DOMAIN current |->
          IF c \in UpdateColumns(list_row, a) THEN data[c] ELSE current[c]]

\* one whole request served alone at the instant t
TimerRequest(kind, row, t) ==
    IF Refused(kind, row) THEN row
    ELSE WriteColumns(row, row, TimerArgs(kind, row, t), t)

\* the handler selects the active list and computes
BeginRequest(r, u, kind) ==
    /\ inflight.req[r].pc = "idle"
    /\ \E l \in ActiveLists(lists, u) :
          /\ \A q \in Requests : inflight.req[q].list \in {0, l}
          /\ kind = "skip" =>
                get_next_phase(lists[l].timer_state,
                               lists[l].sessions_completed)[2] <= MaxSessions
          /\ inflight' =
                [req |-> [inflight.req EXCEPT ![r] =
                            [pc |-> IF Refused(kind, lists[l]) THEN "done"
                                    ELSE "computed",
                             kind |-> kind, list |-> l,
                             args |-> IF Refused(kind, lists[l]) THEN NoArgs
                                      ELSE TimerArgs(kind, lists[l], now),
                             list_row |-> NoRow]],
                 base |-> IF \A q \in Requests : inflight.req[q].pc = "idle"
                          THEN lists[l] ELSE inflight.base]
    /\ UNCHANGED <<users, lists, tasks, nextListId, nextTaskId, now, resp, hist, steps>>

\* update_timer_state selects the row
SelectRow(r) ==
    /\ inflight.req[r].pc = "computed"
    /\ inflight' = [inflight EXCEPT
                      !.req[r].pc = "selected",
                      !.req[r].list_row = lists[inflight.req[r].list]]
    /\ UNCHANGED <<users, lists, tasks, nextListId, nextTaskId, now, resp, hist, steps>>

\* update_timer_state writes and commits
WriteRow(r) ==
    /\ inflight.req[r].pc = "selected"
    /\ LET q == inflight.req[r]
       IN /\ lists' = [lists EXCEPT ![q.list] =
                          WriteColumns(lists[q.list], q.list_row, q.args, now)]
          /\ resp' = Response(q.kind, lists[q.list].user_id, "ok", q.list)
    /\ inflight' = [inflight EXCEPT !.req[r].pc = "done", !.req[r].list_row = NoRow,
                                    !.req[r].args = NoArgs]
    /\ hist' = NoHist
    /\ UNCHANGED <<users, tasks, nextListId, nextTaskId, now, steps>>

Quiet == \A r \in Requests : inflight.req[r].pc = "idle"

\* ------------------------------------------------------- specifications
Init ==
    /\ users = {}
    /\ lists = << >>
    /\ tasks = << >>
    /\ nextListId = 1
    /\ nextTaskId = 1
    /\ now = 0
    /\ resp = Response("init", 0, "ok", 0)
    /\ hist = NoHist
    /\ steps = 0
    /\ inflight = NoFlight

TaskIds == 1..MaxTaskId
ListIds == 1..MaxListId

\* the task_order lists a reorder request may carry
TaskOrders == UNION {[1..n -> TaskIds] : n \in 0..MaxOrderLen}

\* the task tree under the requests of every registered user
NextTree ==
    \/ Register
    \/ \E u \in users, empty \in BOOLEAN : add_task(u, empty)
    \/ \E u \in users, parent_id \in TaskIds, empty \in BOOLEAN :
          create_subtask(u, parent_id, empty)
    \/ \E u \in users, id \in TaskIds : delete_task(u, id)
    \/ \E u \in users, id \in TaskIds, new_parent_id \in TaskIds \cup {Null},
          operation \in {"make_subtask", "move_to_root", "move"} :
          move_task(u, id, operation, new_parent_id)
    \/ \E u \in users, task_id \in TaskIds, new_parent_id \in TaskIds \cup {Null},
          position_after_id \in TaskIds \cup {Null}, list_id \in ListIds :
          update_task_hierarchy(u, task_id, new_parent_id, position_after_id, list_id)
    \/ \E u \in users, list_id \in ListIds, task_order \in TaskOrders :
          reorder_tasks(u, list_id, task_order)

SpecTree == Init /\ [][NextTree]_vars

\* the lists of every user under the list requests and the reset-tutorial
\* command
NextLists ==
    \/ Register
    \/ reset_tutorial_command
    \/ \E u \in users, tutorial \in BOOLEAN : create(u, tutorial)
    \/ \E u \in users, id \in ListIds : select_list(u, id)
    \/ \E u \in users, id \in ListIds, tutorial \in BOOLEAN : edit_list(u, id, tutorial)
    \/ \E u \in users, id \in ListIds : delete_list(u, id)

SpecLists == Init /\ [][NextLists]_vars

\* the timer of the active list of one user under the timer requests and the
\* passage of time
NextTimer ==
    \/ users = {} /\ Register
    \/ Tick
    \/ \E u \in users : get_timer_status(u)
    \/ \E u \in users : start_timer(u)
    \/ \E u \in users : pause_timer(u)
    \/ \E u \in users : reset_timer(u)
    \/ \E u \in users : skip_timer(u)
    \/ \E u \in users : reset_sets(u)

SpecTimer == Init /\ [][NextTimer]_vars

\* two timer requests racing on the active list of one user, from any state
\* the timer requests and the clock lead to
NextRace ==
    \/ users = {} /\ Register
    \/ Quiet /\ Tick
    \/ \E u \in users : Quiet /\ start_timer(u)
    \/ \E u \in users : Quiet /\ pause_timer(u)
    \/ \E u \in users : Quiet /\ skip_timer(u)
    \/ \E r \in Requests, u \in users, kind \in TimerKinds : BeginRequest(r, u, kind)
    \/ \E r \in Requests : SelectRow(r)
    \/ \E r \in Requests : WriteRow(r)

SpecRace == Init /\ [][NextRace]_vars

\* the lists of one user under the list requests, with the timer of the
\* active list started, skipped and paused in between
NextListTimers ==
    \/ users = {} /\ Register
    \/ \E u \in users : start_timer(u)
    \/ \E u \in users : pause_timer(u)
    \/ \E u \in users : skip_timer(u)
    \/ \E u \in users, tutorial \in BOOLEAN : create(u, tutorial)
    \/ \E u \in users, id \in ListIds : select_list(u, id)
    \/ \E u \in users, id \in ListIds, tutorial \in BOOLEAN : edit_list(u, id, tutorial)
    \/ \E u \in users, id \in ListIds : delete_list(u, id)

SpecListTimers == Init /\ [][NextListTimers]_vars

\* calculate_remaining_time and the requests that use it, on a running row
\* whose start timestamp is missing, does not parse, or is in order
StampRows ==
    {[NewList(1, 1, TRUE) EXCEPT !.timer_state = state, !.current_phase = state,
                                 !.timer_remaining = remaining,
                                 !.timer_started_at = started_at,
                                 !.timer_last_updated = 0] :
        state \in Running, remaining \in {0, 299, 1500},
        started_at \in {NoTime, Unparsable, 0}}

InitStamps ==
    /\ users = {1}
    /\ lists \in {<<row>> : row \in StampRows}
    /\ tasks = << >>
    /\ nextListId = 2
    /\ nextTaskId = 1
    /\ now = 0
    /\ resp = Response("init", 0, "ok", 0)
    /\ hist = NoHist
    /\ steps = 0
    /\ inflight = NoFlight

NextStamps ==
    \/ Tick
    \/ \E u \in users : get_timer_status(u)
    \/ \E u \in users : pause_timer(u)
    \/ \E u \in users : start_timer(u)

SpecStamps == InitStamps /\ [][NextStamps]_vars

\* the timer of one user's active list under every timer request but
\* reset_sets
NextSkips ==
    \/ users = {} /\ Register
    \/ Tick
    \/ \E u \in users : start_timer(u)
    \/ \E u \in users : pause_timer(u)
    \/ \E u \in users : reset_timer(u)
    \/ \E u \in users : skip_timer(u)

\* every request is served, and the client of the claim keeps sending skips
SpecSkips ==
    /\ Init
    /\ [][NextSkips]_vars
    /\ WF_vars(users = {} /\ Register)
    /\ WF_vars(\E u \in users : skip_timer(u))

\* one user switching between lists while the timer of the active list runs
NextSwitch ==
    \/ users = {} /\ Register
    \/ Tick
    \/ \E u \in users : start_timer(u)
    \/ \E u \in users, tutorial \in BOOLEAN : create(u, tutorial)
    \/ \E u \in users, id \in ListIds : select_list(u, id)

SpecSwitch == Init /\ [][NextSwitch]_vars

Next == NextTree \/ NextLists \/ NextTimer \/ NextRace \/ NextListTimers

Spec == Init /\ [][Next]_vars

\* ------------------------------------------------------------- the tree
\* what the parent references say, whatever the paths say
RECURSIVE DescendantsFrom(_, _)
DescendantsFrom(ts, S) ==
    LET more == {c \in DOMAIN ts : ts[c].parent_id \in S /\ c \notin S}
    IN IF more = {} THEN S ELSE DescendantsFrom(ts, S \cup more)

Descendants(ts, t) == DescendantsFrom(ts, {c \in DOMAIN ts : ts[c].parent_id = t})

RECURSIVE ReachesRoot(_, _, _)
ReachesRoot(ts, t, seen) ==
    IF t \notin DOMAIN ts \/ t \in seen THEN FALSE
    ELSE IF ts[t].parent_id = Null THEN TRUE
    ELSE ReachesRoot(ts, ts[t].parent_id, seen \cup {t})

RECURSIVE OwnAncestor(_, _, _, _)
OwnAncestor(ts, t, cur, n) ==
    IF n = 0 \/ cur \notin DOMAIN ts \/ ts[cur].parent_id = Null THEN FALSE
    ELSE ts[cur].parent_id = t \/ OwnAncestor(ts, t, ts[cur].parent_id, n - 1)

Restrict(r, S) == SelectSeq(r, LAMBDA x : x \in S)

\* ------------------------------------------------------------------- C1
\* C1: in every reachable state every task with a parent has
\* path = parent.path + '/' + id, and every task without one has path = id.
C1_PathMatchesParent ==
    \A t \in DOMAIN tasks :
        IF tasks[t].parent_id = Null
        THEN tasks[t].path = Str(t)
        ELSE tasks[t].parent_id \in DOMAIN tasks
                => tasks[t].path = JoinSlash(tasks[tasks[t].parent_id].path, Str(t))

\* ------------------------------------------------------------------- C2
\* C2: a move of a task the caller owns under itself or under one of its own
\* descendants (move_task make_subtask, or update_task_hierarchy with a
\* parent_id) ends with the circular-reference error and changes no task.
C2_CycleMoveRejected ==
    [][\A u \in users, id \in DOMAIN tasks, p \in DOMAIN tasks :
          ( /\ Owned(tasks, u, id)
            /\ Owned(tasks, u, p)
            /\ p = id \/ p \in Descendants(tasks, id)
            /\ \/ move_task(u, id, "make_subtask", p)
               \/ \E a \in TaskIds \cup {Null},
                     l \in {x \in DOMAIN lists : lists[x].user_id = u} :
                     update_task_hierarchy(u, id, p, a, l) )
          => (resp'.status = "circular" /\ tasks' = tasks)]_vars

\* ------------------------------------------------------------------- C3
\* r lists each task immediately before its whole subtree, roots and the
\* children of one parent by ascending order index
NestedOrder(ts, r) ==
    /\ \A i, j \in 1..Len(r) :
          (i < j /\ ts[r[i]].parent_id = ts[r[j]].parent_id)
             => ts[r[i]].position <= ts[r[j]].position
    /\ \A i \in 1..Len(r) :
          LET D == Descendants(ts, r[i]) \cap Range(r)
          IN \A j \in 1..Len(r) : (r[j] \in D) <=> (i < j /\ j <= i + Cardinality(D))

\* C3: for any tree, get_tasks_with_hierarchy returns the roots by ascending
\* order index, each task immediately followed by its full subtree, and the
\* tasks of one parent by ascending order index.
C3_HierarchyNestsSubtrees ==
    \A l \in DOMAIN lists :
        \A r \in get_tasks_with_hierarchy(tasks, l, lists[l].user_id) :
            NestedOrder(tasks, r)

\* ------------------------------------------------------------------- C4
\* ids names, once each, exactly the tasks of list l of user u under one parent
\* (or the roots), all of them rows of the hierarchy
IsSiblingGroup(ts, u, l, ids) ==
    /\ ids # << >>
    /\ \A i, j \in 1..Len(ids) : i # j => ids[i] # ids[j]
    /\ Range(ids) \subseteq CteRows(ts, l, u)
    /\ Range(ids) = {t \in DOMAIN ts : /\ ts[t].list_id = l
                                       /\ ts[t].user_id = u
                                       /\ ts[t].parent_id = ts[ids[1]].parent_id}

\* C4: after reorder_tasks(list, ids) with ids one whole sibling group,
\* get_tasks_with_hierarchy returns those siblings in the order of ids.
C4_ReorderThenHierarchy ==
    [][\A u \in users, l \in DOMAIN lists, ids \in TaskOrders :
          ( /\ reorder_tasks(u, l, ids)
            /\ resp'.status = "ok"
            /\ IsSiblingGroup(tasks, u, l, ids) )
          => \A r \in get_tasks_with_hierarchy(tasks', l, u) :
                Restrict(r, Range(ids)) = ids]_vars

\* ------------------------------------------------------------------- C5
\* C5: two status reads with no mutation in between agree when made at the
\* same instant, and while the timer runs a read made T whole seconds after
\* an earlier one returns max(0, earlier - T). (The clock has sub-second
\* resolution and the code counts elapsed time in whole seconds: between reads
\* that are not a whole number of seconds apart the remaining time drops by T
\* rounded down or up.)
C5_StatusReadsAgree ==
    [][\A u \in users :
          ( /\ get_timer_status(u)
            /\ resp'.status = "ok"
            /\ hist.nreads > 0
            /\ hist.read.list = hist'.read.list )
          => LET a == hist.read
                 b == hist'.read
                 ticks == b.at - a.at
                 T == ticks \div TicksPerSecond
             IN /\ ticks = 0 => b.remaining = a.remaining
                /\ lists[b.list].timer_state \in Running =>
                      /\ ticks % TicksPerSecond = 0
                            => b.remaining = Max(0, a.remaining - T)
                      /\ b.remaining <= Max(0, a.remaining - T)
                      /\ b.remaining >= Max(0, a.remaining - (T + 1))]_vars

\* a second read, a whole number of seconds after the first, of a running
\* timer whose time has run out: the floor at zero applies
C5_Witness ==
    /\ resp.op = "status"
    /\ hist.nreads = 2
    /\ hist.gap = "whole"
    /\ hist.read.list \in DOMAIN lists
    /\ lists[hist.read.list].timer_state \in Running
    /\ hist.read.remaining = 0
    /\ lists[hist.read.list].timer_remaining
          < (hist.read.at - lists[hist.read.list].timer_started_at) \div TicksPerSecond

\* ------------------------------------------------------------------- C6
CyclePhases ==
    <<"session", "short_break", "session", "short_break",
      "session", "short_break", "session", "long_break">>

CycleCounts == <<0, 1, 1, 2, 2, 3, 3, 4>>

\* C6: a skip from a running session adds one to the counter and goes to
\* long_break when the new counter is a multiple of 4, else to short_break; a
\* skip from a running break goes to session with the counter unchanged; so a
\* start on a fresh list followed only by skips runs session, short_break,
\* session, short_break, session, short_break, session, long_break, the counter
\* reaching 4 on entry to long_break.
C6_SkipCycle ==
    /\ (resp.op = "skip" /\ resp.status = "ok") =>
          LET row == lists[resp.list]
              n == hist.pre_sess
          IN /\ hist.pre_state = "session" =>
                  /\ row.sessions_completed = n + 1
                  /\ row.timer_state = IF (n + 1) % 4 = 0 THEN "long_break"
                                       ELSE "short_break"
             /\ hist.pre_state \in {"short_break", "long_break"} =>
                  /\ row.sessions_completed = n
                  /\ row.timer_state = "session"
    /\ hist.run >= 0 =>
          /\ lists[hist.rlist].timer_state = CyclePhases[hist.run + 1]
          /\ lists[hist.rlist].sessions_completed = CycleCounts[hist.run + 1]

\* the seventh skip after the start on a fresh list has entered long_break
C6_Witness ==
    /\ hist.run = 7
    /\ resp.op = "skip"
    /\ lists[hist.rlist].timer_state = "long_break"
    /\ lists[hist.rlist].sessions_completed = 4

\* ------------------------------------------------------------------- C7
\* C7: pause_timer during a running phase P stores current_phase = P, and the
\* next start_timer (no skip, reset or reset_sets in between) resumes P with
\* the stored snapshot as remaining, the start timestamp = now and the counter
\* unchanged.
C7_PauseThenStartResumes ==
    [][\A u \in users :
          /\ (pause_timer(u) /\ resp'.status = "ok") =>
                /\ lists[resp'.list].timer_state \in Running
                /\ lists'[resp'.list].timer_state = "paused"
                /\ lists'[resp'.list].current_phase = lists[resp'.list].timer_state
          /\ ( /\ start_timer(u)
               /\ resp'.status = "ok"
               /\ hist.paused # "none"
               /\ hist.plist = resp'.list ) =>
                LET before == lists[resp'.list]
                    after == lists'[resp'.list]
                IN /\ before.current_phase = hist.paused
                   /\ after.timer_state = hist.paused
                   /\ after.current_phase = hist.paused
                   /\ after.timer_remaining = hist.snap
                   /\ after.timer_remaining = before.timer_remaining
                   /\ after.timer_started_at = now
                   /\ after.sessions_completed = hist.sess
                   /\ after.sessions_completed = before.sessions_completed]_vars

\* a start has resumed a short break that pause_timer had paused part-way
C7_Witness ==
    /\ resp.op = "start"
    /\ hist.resumed = "short_break"
    /\ lists[resp.list].timer_state = "short_break"
    /\ lists[resp.list].timer_remaining < lists[resp.list].pomo_short_break * 60
    /\ lists[resp.list].sessions_completed > 0

\* ------------------------------------------------------------------- C8
AdminOps == {"init", "register", "reset_tutorial"}

\* C8: no request made for one owner changes a task or a list of another.
C8_OwnerIsolation ==
    [][resp'.op \notin AdminOps =>
          /\ \A t \in DOMAIN tasks :
                tasks[t].user_id # resp'.user
                   => (t \in DOMAIN tasks' /\ tasks'[t] = tasks[t])
          /\ \A l \in DOMAIN lists :
                lists[l].user_id # resp'.user
                   => (l \in DOMAIN lists' /\ lists'[l] = lists[l])]_vars

\* ------------------------------------------------------------------- C9
\* C9: in every reachable state every owner has exactly one active list
\* (stated for the owners that have a list at all).
C9_ExactlyOneActive ==
    \A u \in users :
        (\E l \in DOMAIN lists : lists[l].user_id = u)
           => Cardinality(ActiveLists(lists, u)) = 1

\* ------------------------------------------------------------------ C10
\* C10: in every committed state the parent references of every task lead, in
\* finitely many steps and without meeting a task twice, to a task with no
\* parent.
C10_ChainsReachRoot ==
    \A t \in DOMAIN tasks : ReachesRoot(tasks, t, {})

\* the part of C10 that the code does keep: no task is among its own ancestors
NoTaskIsOwnAncestor ==
    \A t \in DOMAIN tasks : ~OwnAncestor(tasks, t, t, MaxTaskId + 1)

\* ------------------------------------------------------------------ C11
\* C11: when two timer requests for the same list interleave, the row they
\* leave equals the row left by serving the two one after the other in one of
\* the two orders.
C11_TimerRequestsSerializable ==
    (\A r \in Requests : inflight.req[r].pc = "done") =>
        LET a == inflight.req[1].kind
            b == inflight.req[2].kind
            l == inflight.req[1].list
        IN \/ lists[l] = TimerRequest(b, TimerRequest(a, inflight.base, now), now)
           \/ lists[l] = TimerRequest(a, TimerRequest(b, inflight.base, now), now)

\* ------------------------------------------------------------------ C12
MoveOps == {"move_task", "move_to_root", "update_task_hierarchy"}

\* C12: a move (move_task or update_task_hierarchy) that fails -- task or new
\* parent missing or not the caller's, a cycle, or a failure part-way through
\* the descendant fixups -- leaves every task row as it was before the request.
C12_FailedMoveChangesNothing ==
    [][(resp'.op \in MoveOps /\ resp'.status \notin {"ok", "ok_nothing"})
          => tasks' = tasks]_vars

\* a move has failed part-way through the descendant fixups, after the
\* statements run so far had rewritten the moved task
C12_Witness ==
    /\ resp.op = "move_task"
    /\ resp.status = "db_error"
    /\ \E id \in DOMAIN tasks, p \in DOMAIN tasks :
          /\ p \in Descendants(tasks, id)
          /\ ~is_descendant(tasks, p, id)
          /\ ~Reparent(tasks, id, p).ok
          /\ Reparent(tasks, id, p).tasks # tasks

\* ------------------------------------------------------------------ C13
\* C13: in every reachable state every task has level = parent.level + 1 when
\* it has a parent and level = 0 when it has none.
C13_LevelMatchesParent ==
    \A t \in DOMAIN tasks :
        IF tasks[t].parent_id = Null
        THEN tasks[t].level = 0
        ELSE tasks[t].parent_id \in DOMAIN tasks
                => tasks[t].level = tasks[tasks[t].parent_id].level + 1

\* ------------------------------------------------------------------ C14
\* the tasks of list l under parent p (Null: the root tasks)
SiblingGroup(ts, l, p) == {t \in DOMAIN ts : ts[t].list_id = l /\ ts[t].parent_id = p}

\* C14: in every reachable state the order indexes of each sibling group (the
\* tasks of one list with the same parent) are exactly 0..n-1, without gaps or
\* duplicates.
C14_DensePositions ==
    \A t \in DOMAIN tasks :
        LET G == SiblingGroup(tasks, tasks[t].list_id, tasks[t].parent_id)
        IN /\ {tasks[x].position : x \in G} = 0..(Cardinality(G) - 1)
           /\ \A x, y \in G : tasks[x].position = tasks[y].position => x = y

\* ------------------------------------------------------------------ C15
\* C15: an inserted task (add_task: a root task; create_subtask: under a
\* parent) gets order index 1 + the largest order index among the tasks of the
\* same list with the same parent (0 when there are none), and level
\* parent.level + 1, or 0 for a root task.
C15_InsertAfterSiblings ==
    [][(resp'.op \in {"add_task", "create_subtask"} /\ resp'.status = "ok") =>
          LET new == tasks'[nextTaskId]
              G == SiblingGroup(tasks, new.list_id, new.parent_id)
          IN /\ new.position = 1 + MaxOf({tasks[x].position : x \in G}, 0 - 1)
             /\ new.level = IF new.parent_id = Null THEN 0
                            ELSE tasks[new.parent_id].level + 1]_vars

\* ------------------------------------------------------------------ C16
\* the ids from task id down to its descendant d, joined by '/', and the
\* number of steps between them
RECURSIVE ChainPath(_, _, _)
ChainPath(ts, id, d) ==
    IF d = id THEN Str(id) ELSE JoinSlash(ChainPath(ts, id, ts[d].parent_id), Str(d))

RECURSIVE Depth(_, _, _)
Depth(ts, id, d) == IF d = id THEN 0 ELSE 1 + Depth(ts, id, ts[d].parent_id)

Matched(ts, u, l, ids) ==
    {t \in Range(ids) : Owned(ts, u, t) /\ ts[t].list_id = l}

\* every task outside S is as it was, and the tasks in S differ at most in
\* their position
OnlyPositionsOf(before, after, S) ==
    /\ DOMAIN after = DOMAIN before
    /\ \A t \in DOMAIN before :
          IF t \in S THEN [after[t] EXCEPT !.position = before[t].position] = before[t]
          ELSE after[t] = before[t]

C18_ReorderIdempotent ==
    [][(resp'.op = "reorder_tasks" /\ resp'.status = "ok") =>
          \A ids \in TaskOrders :
             reorder_tasks(resp'.user, resp'.list, ids) =>
                ReorderFrom(tasks', resp'.user, resp'.list, ids, 1) = tasks']_vars

\* a reorder has moved the seeded child of task 2 from index 0 to index 1
C18_Witness ==
    /\ resp.op = "reorder_tasks"
    /\ resp.status = "ok"
    /\ {2, 3} \subseteq DOMAIN tasks
    /\ tasks[3].parent_id = 2
    /\ tasks[3].position = 1
    /\ tasks[3].list_id = resp.list

\* ------------------------------------------------------------------ C19
\* C19: update_task_hierarchy with position_after_id = a puts the task at order
\* index a.index + 1 and shifts up by one exactly the siblings of the task
\* whose order index was greater than a.index; without position_after_id the
\* task takes order index 0 and exactly its siblings go up by one. Tasks that
\* are not siblings of the moved task keep their order index.
C19_InsertAfterShiftsSiblings ==
    [][(resp'.op = "update_task_hierarchy" /\ resp'.status = "ok") =>
          \A p \in TaskIds \cup {Null}, a \in TaskIds \cup {Null}, l \in ListIds :
             ( /\ update_task_hierarchy(resp'.user, resp'.task, p, a, l)
               /\ a # Null => (Owned(tasks, resp'.user, a) /\ tasks[a].list_id = l) )
             => LET id == resp'.task
                    siblings == SiblingGroup(tasks', tasks'[id].list_id,
                                             tasks'[id].parent_id) \ {id}
                    after_index == IF a = Null THEN 0 - 1 ELSE tasks[a].position
                IN /\ tasks'[id].position = after_index + 1
                   /\ \A t \in DOMAIN tasks \ {id} :
                         tasks'[t].position =
                            IF t \in siblings /\ tasks[t].position > after_index
                            THEN tasks[t].position + 1
                            ELSE tasks[t].position]_vars

C21_PauseSnapshotsRemaining ==
    [][(resp'.op = "pause" /\ resp'.status = "ok" /\ pause_timer(resp'.user)) =>
          LET before == lists[resp'.list]
              after == lists'[resp'.list]
              elapsed_ticks == now - before.timer_started_at
              exact_ticks == Max(0, before.timer_remaining * TicksPerSecond - elapsed_ticks)
          IN /\ before.timer_state \in Running
             /\ after.timer_state = "paused"
             /\ after.timer_remaining * TicksPerSecond >= exact_ticks
             /\ after.timer_remaining * TicksPerSecond - exact_ticks < TicksPerSecond
             /\ after.timer_started_at = NoTime
             /\ after.current_phase = before.timer_state
             /\ after.sessions_completed = before.sessions_completed]_vars

\* a short break paused after its time had run out: the floor at 0 applies
C21_Witness ==
    /\ resp.op = "pause" /\ resp.status = "ok"
    /\ hist.plist = resp.list /\ hist.paused = "short_break"
    /\ lists[resp.list].timer_state = "paused"
    /\ lists[resp.list].timer_remaining = 0
    /\ lists[resp.list].timer_started_at = NoTime
    /\ lists[resp.list].sessions_completed > 0

\* ------------------------------------------------------------------ C22
\* the configured length of a running phase, in seconds
FullDuration(row, phase) ==
    CASE phase = "session" -> row.pomo_session * 60
      [] phase = "short_break" -> row.pomo_short_break * 60
      [] phase = "long_break" -> row.pomo_long_break * 60
      [] OTHER -> 0 - 2

\* C22: reset_timer on a list that is running or paused leaves it paused with
\* the remaining time equal to the full configured length of current_phase,
\* which is the phase that was running or that pause_timer paused, with the
\* start timestamp cleared and current_phase and the session counter
\* unchanged.
C22_ResetRestartsPhase ==
    [][(resp'.op = "reset" /\ resp'.status = "ok" /\ reset_timer(resp'.user)) =>
          LET before == lists[resp'.list]
              after == lists'[resp'.list]
          IN before.timer_state \in Running \cup {"paused"} =>
                /\ before.timer_state \in Running =>
                      before.current_phase = before.timer_state
                /\ (before.timer_state = "paused" /\ hist.plist = resp'.list) =>
                      before.current_phase = hist.paused
                /\ after.timer_state = "paused"
                /\ after.timer_remaining = FullDuration(before, before.current_phase)
                /\ after.timer_started_at = NoTime
                /\ after.current_phase = before.current_phase
                /\ after.sessions_completed = before.sessions_completed]_vars

\* a short break reset to its full length
C22_Witness ==
    /\ resp.op = "reset" /\ resp.status = "ok"
    /\ lists[resp.list].timer_state = "paused"
    /\ lists[resp.list].current_phase = "short_break"
    /\ lists[resp.list].timer_remaining = lists[resp.list].pomo_short_break * 60
    /\ lists[resp.list].timer_started_at = NoTime
    /\ lists[resp.list].sessions_completed > 0

\* ------------------------------------------------------------------ C23
\* C23: skip_timer on a paused list picks the next phase from the session
\* counter alone: with the counter at 0 or 2 modulo 4 the list goes to
\* short_break and the counter goes up by one; with the counter at 1 or 3
\* modulo 4 the list goes to session and the counter stays.
C23_SkipFromPaused ==
    [][(resp'.op = "skip" /\ resp'.status = "ok" /\ skip_timer(resp'.user)) =>
          LET before == lists[resp'.list]
              after == lists'[resp'.list]
          IN before.timer_state = "paused" =>
                IF before.sessions_completed % 4 \in {0, 2}
                THEN /\ after.timer_state = "short_break"
                     /\ after.sessions_completed = before.sessions_completed + 1
                ELSE /\ after.timer_state = "session"
                     /\ after.sessions_completed = before.sessions_completed]_vars

\* a skip from a paused list whose counter stood at 3: into a session, the
\* counter still 3
C23_Witness ==
    /\ resp.op = "skip" /\ resp.status = "ok"
    /\ hist.pre_state = "paused" /\ hist.pre_sess = 3
    /\ lists[resp.list].timer_state = "session"
    /\ lists[resp.list].sessions_completed = 3

\* ------------------------------------------------------------------ C24
\* C24: reset_sets from any state (idle, running or paused) leaves the list
\* paused with current_phase = session, the remaining time equal to the full
\* session length, the session counter at 0 and no start timestamp.
C24_ResetSetsRestartsCycle ==
    [][(resp'.op = "reset_sets" /\ resp'.status = "ok" /\ reset_sets(resp'.user)) =>
          LET before == lists[resp'.list]
              after == lists'[resp'.list]
          IN /\ after.timer_state = "paused"
             /\ after.current_phase = "session"
             /\ after.timer_remaining = before.pomo_session * 60
             /\ after.sessions_completed = 0
             /\ after.timer_started_at = NoTime]_vars

\* a reset of the sets some time after the first request
C24_Witness ==
    /\ resp.op = "reset_sets" /\ resp.status = "ok"
    /\ now > 0
    /\ lists[resp.list].timer_last_updated = now
    /\ lists[resp.list].timer_state = "paused"
    /\ lists[resp.list].current_phase = "session"
    /\ lists[resp.list].sessions_completed = 0

\* ------------------------------------------------------------------ C25
\* the persisted timer fields of a row of lists
TimerFields(row) ==
    <<row.timer_state, row.current_phase, row.timer_remaining,
      row.timer_started_at, row.timer_last_updated, row.sessions_completed>>

\* the five requests that drive the timer
TimerOps == {"start", "pause", "reset", "skip", "reset_sets"}

\* C25: the passage of time changes no persisted timer field. Between two of
\* the requests start, pause, reset, skip and reset_sets every list keeps its
\* state, current_phase, snapshot, start timestamp and session counter, also
\* when the computed remaining time of a running list has reached 0; only the
\* computed remaining time moves, and it never goes up.
C25_TimeChangesNothingStored ==
    [][(now' # now \/ resp'.op \notin TimerOps) =>
          \A l \in DOMAIN lists :
             /\ l \in DOMAIN lists'
             /\ TimerFields(lists'[l]) = TimerFields(lists[l])
             /\ calculate_remaining_time(lists'[l], now')
                   <= calculate_remaining_time(lists[l], now)]_vars

\* a running break whose time ran out some time ago and that is still running
C25_Witness ==
    \E l \in DOMAIN lists :
       /\ lists[l].timer_state = "short_break"
       /\ calculate_remaining_time(lists[l], now) = 0
       /\ now - lists[l].timer_started_at
             > (lists[l].timer_remaining + 1) * TicksPerSecond
       /\ lists[l].timer_last_updated < now

\* ------------------------------------------------------------------ C26
\* C26: get_timer_status only reads: whatever the state of the active list and
\* whatever the time, no field of any list and no field of any task changes.
C26_StatusReadsOnly ==
    [][(resp'.op = "status" /\ \E u \in users : get_timer_status(u)) =>
          /\ lists' = lists
          /\ tasks' = tasks]_vars

\* a status read of a running list part-way through its phase: the remaining
\* time it reports is not the stored one
C26_Witness ==
    /\ resp.op = "status" /\ resp.status = "ok"
    /\ hist.read.list = resp.list /\ hist.read.at = now
    /\ lists[resp.list].timer_state \in Running
    /\ hist.read.remaining > 0
    /\ hist.read.remaining < lists[resp.list].timer_remaining
    /\ tasks # << >>

\* ------------------------------------------------------------------ C27
\* the requests of the lists blueprint
ListOps == {"create", "edit_list", "select_list", "delete_list"}

\* C27: only start, pause, reset, skip and reset_sets change the timer fields
\* of a list: create, edit_list, select_list and delete_list leave the timer
\* fields of every list that survives them as they were.
C27_ListRequestsKeepTimers ==
    [][resp'.op \in ListOps =>
          \A l \in DOMAIN lists \cap DOMAIN lists' :
             TimerFields(lists'[l]) = TimerFields(lists[l])]_vars

\* ------------------------------------------------------------------ C28
\* C28: in every reachable state a list has a start timestamp exactly when
\* its timer is in one of the running phases session, short_break and
\* long_break; an idle or paused list has none.
C28_StartStampIffRunning ==
    \A l \in DOMAIN lists :
       (lists[l].timer_started_at # NoTime) <=> (lists[l].timer_state \in Running)

\* ------------------------------------------------------------------ C29
\* C29: when a list is in a running phase and its start timestamp is missing
\* or does not parse, get_timer_status reports the stored snapshot as the
\* remaining time, pause_timer and start_timer store that same snapshot, and
\* none of the three answers with an error.
C29_BadStampFallsBack ==
    [][( /\ resp'.op \in {"status", "pause", "start"}
         /\ \E u \in users : get_timer_status(u) \/ pause_timer(u) \/ start_timer(u) ) =>
          LET before == lists[resp'.list]
              after == lists'[resp'.list]
          IN ( /\ before.timer_state \in Running
               /\ before.timer_started_at \in {NoTime, Unparsable} ) =>
                /\ resp'.status = "ok"
                /\ resp'.op = "status" => hist'.read.remaining = before.timer_remaining
                /\ after.timer_remaining = before.timer_remaining]_vars

\* a status read, some time into the run, of a running list whose start
\* timestamp does not parse: it reports the snapshot
C29_Witness ==
    /\ resp.op = "status" /\ resp.status = "ok"
    /\ now > 0
    /\ lists[resp.list].timer_state \in Running
    /\ lists[resp.list].timer_started_at = Unparsable
    /\ lists[resp.list].timer_remaining > 0
    /\ hist.read.at = now
    /\ hist.read.remaining = lists[resp.list].timer_remaining

\* ------------------------------------------------------------------ C30
\* C30: once delete_task(t) has committed, t and every descendant of t are
\* gone, so that the parent reference of every task is empty or names a task
\* that exists.
C30_DeleteRemovesSubtree ==
    [][(resp'.op = "delete_task" /\ resp'.status = "ok") =>
          \A id \in DOMAIN tasks :
             delete_task(resp'.user, id) =>
                /\ id \notin DOMAIN tasks'
                /\ Descendants(tasks, id) \cap DOMAIN tasks' = {}
                /\ \A t \in DOMAIN tasks' :
                      tasks'[t].parent_id = Null \/ tasks'[t].parent_id \in DOMAIN tasks']_vars

\* ------------------------------------------------------------------ C31
\* C31: right after skip_timer, from any state and also from a running phase
\* whose time has run out, a status read at the same instant reports the full
\* configured length of the new phase, and the countdown of the new phase is
\* measured from the instant of the skip.
C31_SkipStartsFullPhase ==
    [][(resp'.op = "skip" /\ resp'.status = "ok" /\ skip_timer(resp'.user)) =>
          LET after == lists'[resp'.list]
          IN /\ after.timer_state \in Running
             /\ calculate_remaining_time(after, now')
                   = FullDuration(after, after.timer_state)
             /\ after.timer_started_at = now']_vars

\* ------------------------------------------------------------------ C32
\* the instants a later status read may come at
LaterInstants == {now + d : d \in {0} \cup TickSteps}

\* C32: start_timer on a list that is already running changes nothing a
\* client can observe: the phase and the session counter stay, and at every
\* later instant the remaining time a status read reports is the one it would
\* have reported had start not been called.
C32_StartWhileRunningIsNoOp ==
    [][(resp'.op = "start" /\ resp'.status = "ok" /\ start_timer(resp'.user)) =>
          LET before == lists[resp'.list]
              after == lists'[resp'.list]
          IN before.timer_state \in Running =>
                /\ after.timer_state = before.timer_state
                /\ after.sessions_completed = before.sessions_completed
                /\ \A t \in LaterInstants :
                      calculate_remaining_time(after, t)
                         = calculate_remaining_time(before, t)]_vars

\* ------------------------------------------------------------------ C33
\* C33: in every reachable paused state, skip_timer leads to the phase and
\* the session counter that skip_timer would have led to from the running
\* phase the list was paused in (its current_phase) with the same counter.
C33_SkipPausedAsRunning ==
    [][(resp'.op = "skip" /\ resp'.status = "ok" /\ skip_timer(resp'.user)) =>
          LET before == lists[resp'.list]
              after == lists'[resp'.list]
              running == get_next_phase(before.current_phase, before.sessions_completed)
          IN (before.timer_state = "paused" /\ before.current_phase \in Running) =>
                /\ after.timer_state = running[1]
                /\ after.sessions_completed = running[2]]_vars

\* ------------------------------------------------------------------ C34
\* C34: when skip_timer is called again and again, with any pause, start and
\* reset requests in between and no reset_sets, the session counter keeps
\* going up (it passes each of 0, 1, 2, 3) and the list eventually enters
\* long_break.
C34_SkipsReachLongBreak ==
    ([]<><<\E u \in users : skip_timer(u)>>_vars) =>
       /\ \A n \in 0..3 : <>(\E l \in DOMAIN lists : lists[l].sessions_completed > n)
       /\ <>(\E l \in DOMAIN lists : lists[l].timer_state = "long_break")

\* ------------------------------------------------------------------ C35
\* C35: when select_list switches away from a list whose timer is running,
\* that list ends paused with the remaining time at the instant of the switch
\* as its snapshot (snapshot minus the time elapsed since the start, floored
\* at 0), as pause_timer would have stored it: the time that went by while it
\* ran is not given back.
C35_SwitchSnapshotsRemaining ==
    [][(resp'.op = "select_list" /\ resp'.status = "ok") =>
          \A l \in ActiveLists(lists, resp'.user) \ {resp'.list} :
             (select_list(resp'.user, resp'.list) /\ lists[l].timer_state \in Running) =>
                /\ lists'[l].timer_state = "paused"
                /\ lists'[l].timer_started_at = NoTime
                /\ lists'[l].timer_remaining = calculate_remaining_time(lists[l], now)]_vars

\* ------------------------------------------------------------------ C36
\* C36: a move under a parent (move_task make_subtask, or
\* update_task_hierarchy with a parent_id) goes through whenever the caller
\* owns the task and the new parent and the new parent is neither the task
\* nor one of its descendants; so it goes through when the new parent is an
\* ancestor of the task, as when a grandchild is put directly under its
\* grandparent.
C36_LegalMoveSucceeds ==
    [][(resp'.op \in {"move_task", "update_task_hierarchy"}) =>
          \A id \in DOMAIN tasks, p \in DOMAIN tasks :
             ( /\ Owned(tasks, resp'.user, id)
               /\ Owned(tasks, resp'.user, p)
               /\ p # id
               /\ p \notin Descendants(tasks, id)
               /\ \/ move_task(resp'.user, id, "make_subtask", p)
                  \/ \E a \in TaskIds \cup {Null},
                        l \in {x \in DOMAIN lists : lists[x].user_id = resp'.user} :
                        update_task_hierarchy(resp'.user, id, p, a, l) )
             => resp'.status = "ok"]_vars

\* ------------------------------------------------------------------ C37
\* C37: after any sequence of seeding, inserts, moves, reorders and deletes,
\* get_tasks_with_hierarchy(list, owner) returns every task of that list and
\* owner exactly once: the chain of parents of every task stays within the
\* list and the owner and ends at a root task of the list.
C37_HierarchyReturnsEveryTask ==
    \A l \in DOMAIN lists :
       LET owner == lists[l].user_id
           mine == {t \in DOMAIN tasks : tasks[t].list_id = l /\ tasks[t].user_id = owner}
       IN \A r \in get_tasks_with_hierarchy(tasks, l, owner) :
             /\ Range(r) = mine
             /\ Len(r) = Cardinality(mine)

\* ------------------------------------------------------------------ C38
\* C38: whenever a list is in long_break, running or paused with
\* current_phase = long_break, its session counter is a positive multiple
\* of 4.
C38_LongBreakOnFourth ==
    \A l \in DOMAIN lists :
       ( \/ lists[l].timer_state = "long_break"
         \/ lists[l].timer_state = "paused" /\ lists[l].current_phase = "long_break" )
       => /\ lists[l].sessions_completed > 0
          /\ lists[l].sessions_completed % 4 = 0

\* ------------------------------------------------------------------ C39
\* C39: the descendant fixup of a move (update_descendants_paths) comes to an
\* end for every move request on every reachable tree, and has then rewritten
\* every descendant of the moved task once: no move ends in the error of a
\* walk that did not end, and after a move that went through each descendant
\* carries the path and level one rewrite from its parent's gives.
C39_FixupTerminates ==
    [][resp'.op \in MoveOps =>
          /\ resp'.status # "db_error"
          /\ resp'.status = "ok" =>
                \A d \in Descendants(tasks', resp'.task) :
                   /\ tasks'[d].level = tasks'[tasks'[d].parent_id].level + 1
                   /\ tasks'[d].path =
                         JoinSlash(tasks'[tasks'[d].parent_id].path, Str(d))]_vars

====
